---- MODULE Spec2Model ----
(***************************************************************************)
(* Model of app/memory/store.py: the JSONL memory store (MemoryStore) of   *)
(* the MOF MLIP agent.  The log file is a sequence of text lines; a line   *)
(* holds the JSON text of a value, only white space, or text json.loads    *)
(* rejects.  Strings are sequences of one-character strings so that the    *)
(* tokeniser can be modelled character by character.                       *)
(***************************************************************************)
EXTENDS Integers, Sequences, FiniteSets, TLC

(***************************************************************************)
(* Bounds of the model.                                                    *)
(***************************************************************************)
\* Number of append() calls in one behaviour.
MaxAppends == 3
\* retrieve() is called with k in 0..MaxK.
MaxK == 2
\* The positive soft cap tried for max_items (0, trimming disabled, is the other).
SmallCap == 2

(***************************************************************************)
(* Characters and _tokenize (store.py 15-20).                              *)
(***************************************************************************)
UpperSeq ==
    <<"A","B","C","D","E","F","G","H","I","J","K","L","M",
      "N","O","P","Q","R","S","T","U","V","W","X","Y","Z">>

LowerSeq ==
    <<"a","b","c","d","e","f","g","h","i","j","k","l","m",
      "n","o","p","q","r","s","t","u","v","w","x","y","z">>

Range(s) == { s[i] : i \in DOMAIN s }

Uppercase == Range(UpperSeq)

Lowercase == Range(LowerSeq)

Digits == {"0","1","2","3","4","5","6","7","8","9"}

\* The character class of _WORD_RE: [A-Za-z0-9_\-]
WordChars == Uppercase \cup Lowercase \cup Digits \cup {"_", "-"}

\* str.lower() on one character.
LowerChar(c) ==
    IF c \in Uppercase
    THEN LowerSeq[CHOOSE i \in DOMAIN UpperSeq : UpperSeq[i] = c]
    ELSE c

\* str.lower() on a string.
Lower(s) == [i \in DOMAIN s |-> LowerChar(s[i])]

\* _WORD_RE.findall(text): the maximal runs of word characters, left to right.
\* start is where the run being read began (0: no run is open), acc the runs
\* already closed.
RECURSIVE FindAll(_, _, _, _)
FindAll(text, i, start, acc) ==
    IF i > Len(text)
    THEN IF start = 0 THEN acc ELSE Append(acc, SubSeq(text, start, Len(text)))
    ELSE IF text[i] \in WordChars
         THEN FindAll(text, i + 1, IF start = 0 THEN i ELSE start, acc)
         ELSE FindAll(text, i + 1, 0,
                      IF start = 0 THEN acc
                      ELSE Append(acc, SubSeq(text, start, i - 1)))

\* The minimum token length kept by _tokenize.
MinTokenLen == 2

LongEnough(t) == Len(t) >= MinTokenLen

\* _tokenize(text): [t.lower() for t in findall(text) if len(t) >= 2]
Tokenize(text) ==
    LET runs == FindAll(text, 1, 0, <<>>)
        kept == SelectSeq(runs, LongEnough)
    IN  [i \in DOMAIN kept |-> Lower(kept[i])]

(***************************************************************************)
(* Python values and their JSON text.                                      *)
(***************************************************************************)
Str(s) == [t |-> "str", v |-> s]

None == [t |-> "none"]

\* A dict with string keys: f maps each present key to its value.
Dict(f) == [t |-> "dict", f |-> f]

PyList(s) == [t |-> "list", v |-> s]

PyInt(n) == [t |-> "int", v |-> n]

\* A Python set: a value json has no encoding for.
PySet(s) == [t |-> "set", v |-> s]

\* Whether json.dumps(v) returns a text; otherwise it raises TypeError.
RECURSIVE Serializable(_)
Serializable(v) ==
    CASE v.t = "dict" -> \A key \in DOMAIN v.f : Serializable(v.f[key])
      [] v.t = "list" -> \A i \in DOMAIN v.v : Serializable(v.v[i])
      [] v.t = "set"  -> FALSE
      [] OTHER        -> TRUE

\* str(v) as retrieve uses it on field values.
PyStr(v) == IF v.t = "str" THEN v.v ELSE <<"N","o","n","e">>

\* json.dumps(v): the JSON value whose text is written.
RECURSIVE JsonDumps(_)
JsonDumps(v) ==
    CASE v.t = "dict" -> [t |-> "object",
                          m |-> [key \in DOMAIN v.f |-> JsonDumps(v.f[key])]]
      [] v.t = "str"  -> [t |-> "string", v |-> v.v]
      [] v.t = "none" -> [t |-> "null"]
      [] v.t = "list" -> [t |-> "array",
                          v |-> [i \in DOMAIN v.v |-> JsonDumps(v.v[i])]]
      [] v.t = "int"  -> [t |-> "number", v |-> v.v]

\* json.loads(text) on the text of JSON value j.
RECURSIVE JsonLoads(_)
JsonLoads(j) ==
    CASE j.t = "object" -> Dict([key \in DOMAIN j.m |-> JsonLoads(j.m[key])])
      [] j.t = "string" -> Str(j.v)
      [] j.t = "null"   -> None
      [] j.t = "array"  -> PyList([i \in DOMAIN j.v |-> JsonLoads(j.v[i])])
      [] j.t = "number" -> PyInt(j.v)

(***************************************************************************)
(* Lines of the log file.                                                  *)
(***************************************************************************)
\* A line holding the JSON text of j.
JsonLine(j) == [k |-> "json", j |-> j]

\* A line of white space only.
BlankLine == [k |-> "blank"]

\* A line json.loads rejects with JSONDecodeError (truncated JSON, garbage,
\* two JSON texts glued together).
BadLine == [k |-> "bad"]

(***************************************************************************)
(* Python slices and small helpers.                                        *)
(***************************************************************************)
Min(a, b) == IF a <= b THEN a ELSE b

\* s[-n:].  Python reads -0 as 0, so s[-0:] is the whole of s; for n < 0
\* the slice is s[|n|:], which drops the first |n| elements.
LastSlice(s, n) ==
    IF n < 0 THEN SubSeq(s, 1 - n, Len(s))
    ELSE IF n = 0 \/ n >= Len(s) THEN s
    ELSE SubSeq(s, Len(s) - n + 1, Len(s))

\* s[:n] for n >= 0.
FirstSlice(s, n) == SubSeq(s, 1, Min(n, Len(s)))

\* reversed(s)
Reversed(s) == [i \in DOMAIN s |-> s[Len(s) + 1 - i]]

\* d.get(key, default) on a dict.
Get(d, key, default) == IF key \in DOMAIN d.f THEN d.f[key] ELSE default

(***************************************************************************)
(* The state.                                                              *)
(***************************************************************************)
VARIABLES
    max_items,   \* self.max_items
    file,        \* the file at self.path: its lines, and whether the last
                 \* one ends with a newline
    ret,         \* the last call and what it returned or raised
    appended,    \* history: every record append() has written, in call order
    fs,          \* the directory and the file at self.path, and the store
    chunker,     \* the chunking loop of local_rag over one page
    rag,         \* the document directory of local_rag and its last call
    run,         \* main(): the run in progress and the runs before it
    conc         \* processes inside append() on one log file at a time

vars == <<max_items, file, ret, appended, fs, chunker, rag, run, conc>>

\* What the calls of the store leave alone.
beyondStore == <<chunker, rag, run, conc>>

EmptyFile == [lines |-> <<>>, nl |-> TRUE]

(***************************************************************************)
(* MemoryStore.load_all (store.py 60-76).                                  *)
(***************************************************************************)
\* The loop over the lines: blank lines are skipped, a line json.loads
\* accepts contributes the loaded value, a JSONDecodeError is swallowed.
RECURSIVE LoadLines(_, _)
LoadLines(lines, items) ==
    IF lines = <<>>
    THEN items
    ELSE LET line == Head(lines)
         IN  LoadLines(Tail(lines),
                       IF line.k = "json"
                       THEN Append(items, JsonLoads(line.j))
                       ELSE items)

load_all(f) == LoadLines(f.lines, <<>>)

(***************************************************************************)
(* MemoryStore.append and _trim_if_needed (store.py 50-58, 142-154).       *)
(***************************************************************************)
\* Text written right after a line that has no newline yet joins that line.
\* White space followed by a JSON text still parses; anything else followed
\* by a JSON text does not.
Glue(last, new) == IF last.k = "blank" THEN new ELSE BadLine

\* open(path, "a"); f.write(json.dumps(record) + "\n")
WriteLine(f, record) ==
    LET new == JsonLine(JsonDumps(record))
    IN  IF f.lines = <<>> \/ f.nl
        THEN [lines |-> Append(f.lines, new), nl |-> TRUE]
        ELSE [lines |-> [f.lines EXCEPT ![Len(f.lines)] = Glue(@, new)],
              nl |-> TRUE]

\* A trim that keeps the oldest records: items[:max_items]
TrimKeepOldest(items, cap) == FirstSlice(items, cap)

\* A trim that keeps one record too few: items[-(max_items - 1):]
TrimKeepOneLess(items, cap) ==
    IF cap > 1 THEN LastSlice(items, cap - 1) ELSE <<>>

\* The items kept by a trim: items[-max_items:]
TrimKeep(items, cap) == LastSlice(items, cap)

\* A trim pass without the max_items <= 0 exit.
TrimNeededAnyCap(items, cap) == Len(items) > cap

\* Whether the trim pass rewrites the file.
TrimNeeded(items, cap) == cap > 0 /\ Len(items) > cap

\* _trim_if_needed: the file is rewritten from the loaded items, one JSON
\* line each.
trim_if_needed(f, cap) ==
    LET items == load_all(f)
    IN  IF ~TrimNeeded(items, cap)
        THEN f
        ELSE LET keep == TrimKeep(items, cap)
             IN  [lines |-> [i \in DOMAIN keep |-> JsonLine(JsonDumps(keep[i]))],
                  nl |-> TRUE]

\* append(record): the write, then the trim pass.
append(f, cap, record) == trim_if_needed(WriteLine(f, record), cap)

\* An append that leaves the start of a line behind, as json.dump(record, f)
\* streaming into the file would.
AppendFailedPartial(f) ==
    [lines |-> IF f.lines = <<>> \/ f.nl
               THEN Append(f.lines, BadLine)
               ELSE f.lines,
     nl |-> FALSE]

\* The file after append(record) when json.dumps(record) raises: the file
\* has been opened for appending, the argument of f.write was never
\* computed, and the with block closes the file.
AppendFailed(f) == f

(***************************************************************************)
(* MemoryStore.retrieve (store.py 78-121).                                 *)
(***************************************************************************)
SearchFields ==
    <<"query_original", "query_canonical", "mof_name", "task_type",
      "verdict_status">>

\* " ".join(parts)
RECURSIVE JoinSpace(_)
JoinSpace(parts) ==
    IF parts = <<>> THEN <<>>
    ELSE IF Len(parts) = 1 THEN parts[1]
    ELSE parts[1] \o <<" ">> \o JoinSpace(Tail(parts))

\* The searchable text of a record: str(it.get(field, "")) of each field.
SearchText(it) ==
    JoinSpace([i \in DOMAIN SearchFields |->
                  PyStr(Get(it, SearchFields[i], Str(<<>>)))])

\* len(q_tokens.intersection(it_tokens))
Score(q_tokens, it) ==
    Cardinality(q_tokens \cap Range(Tokenize(SearchText(it))))

\* Whether a record enters the scored list.
Matches(score) == score > 0

\* The scored list, in log order: <<score, position in items>>.
RECURSIVE ScoredFrom(_, _, _)
ScoredFrom(items, q_tokens, i) ==
    IF i > Len(items) THEN <<>>
    ELSE LET score == Score(q_tokens, items[i])
         IN  IF Matches(score)
             THEN <<<<score, i>>>> \o ScoredFrom(items, q_tokens, i + 1)
             ELSE ScoredFrom(items, q_tokens, i + 1)

\* An unstable sort: e goes before the elements of equal key.
RECURSIVE InsertDescUnstable(_, _)
InsertDescUnstable(sorted, e) ==
    IF sorted = <<>> THEN <<e>>
    ELSE IF Head(sorted)[1] > e[1]
         THEN <<Head(sorted)>> \o InsertDescUnstable(Tail(sorted), e)
         ELSE <<e>> \o sorted

\* Where a stable descending sort puts e among the already sorted elements:
\* after every element whose key is not smaller.
RECURSIVE InsertDesc(_, _)
InsertDesc(sorted, e) ==
    IF sorted = <<>> THEN <<e>>
    ELSE IF Head(sorted)[1] >= e[1]
         THEN <<Head(sorted)>> \o InsertDesc(Tail(sorted), e)
         ELSE <<e>> \o sorted

\* scored.sort(key=lambda x: x[0], reverse=True): Python's sort is stable,
\* also with reverse=True.
RECURSIVE SortDesc(_, _)
SortDesc(todo, sorted) ==
    IF todo = <<>> THEN sorted
    ELSE SortDesc(Tail(todo), InsertDesc(sorted, Head(todo)))

\* x.get("exp_id")
ExpId(it) == Get(it, "exp_id", None)

\* A backfill window one record short: items[-(k - 1):]
RecentOneLess(n, k) ==
    LastSlice([i \in 1..n |-> i], IF k > 1 THEN k - 1 ELSE k)

\* recent = items[-k:], as positions in items.
Recent(n, k) == LastSlice([i \in 1..n |-> i], k)

\* A backfill loop whose break is not guarded by len(top) >= k: it ends
\* after the first record it looks at.
BackfillBreaksAtOnce(items, top, seen, rest, k) ==
    IF rest = <<>> THEN top
    ELSE IF Get(items[Head(rest)], "exp_id", None) \notin seen
         THEN Append(top, Head(rest))
         ELSE top

\* The backfill loop over reversed(recent): top and rest are positions in
\* items, seen the exp_id values already in top.
RECURSIVE Backfill(_, _, _, _, _)
Backfill(items, top, seen, rest, k) ==
    IF rest = <<>> THEN top
    ELSE LET r    == Head(rest)
             new  == ExpId(items[r]) \notin seen
             top2 == IF new THEN Append(top, r) ELSE top
         IN  IF Len(top2) >= k
             THEN top2
             ELSE Backfill(items, top2, seen \cup {ExpId(items[r])},
                           Tail(rest), k)

Returned(items, idx) ==
    [raised |-> "", value |-> [i \in DOMAIN idx |-> items[idx[i]]], idx |-> idx]

Raised(what) == [raised |-> what, value |-> <<>>, idx |-> <<>>]

\* A call that returns None.
ReturnedNone == [raised |-> "", value |-> <<>>, idx |-> <<>>]

\* retrieve(query, k) on the items load_all returned.  The result carries,
\* beside the records, their positions in items.
RetrieveItems(items, query, k) ==
    LET q_tokens == Range(Tokenize(query))
    IN  IF items = <<>> THEN Returned(items, <<>>)
        ELSE IF q_tokens = {} THEN Returned(items, Recent(Len(items), k))
        ELSE IF \E i \in DOMAIN items : items[i].t # "dict"
             \* it.get on a list or a number
             THEN Raised("AttributeError")
        ELSE LET scored == SortDesc(ScoredFrom(items, q_tokens, 1), <<>>)
                 cut    == FirstSlice(scored, k)
                 top    == [i \in DOMAIN cut |-> cut[i][2]]
                 seen   == { ExpId(items[top[i]]) : i \in DOMAIN top }
                 filled == IF Len(top) < k
                           THEN Backfill(items, top, seen,
                                         Reversed(Recent(Len(items), k)), k)
                           ELSE top
             IN  Returned(items, FirstSlice(filled, k))

retrieve(f, query, k) == RetrieveItems(load_all(f), query, k)

(***************************************************************************)
(* MemoryStore.format_context (store.py 123-140).                          *)
(***************************************************************************)
ContextFields ==
    <<"exp_id", "mof_name", "task_type", "verdict_status", "query_original",
      "query_canonical">>

\* One PAST_RUN paragraph: the six interpolated values r.get(field, '').
Paragraph(r) ==
    [i \in DOMAIN ContextFields |-> Get(r, ContextFields[i], Str(<<>>))]

\* The rendered context: the placeholder, or one paragraph per record.
format_context(records) ==
    IF records = <<>>
    THEN [raised |-> "", value |-> <<"(no prior memory)">>, idx |-> <<>>]
    ELSE IF \E i \in DOMAIN records : records[i].t # "dict"
         THEN Raised("AttributeError")
         ELSE [raised |-> "",
               value  |-> <<"PAST_RUN">> \o
                          [i \in DOMAIN records |-> Paragraph(records[i])],
               idx    |-> <<>>]

(***************************************************************************)
(* Concrete texts, records and queries.                                    *)
(***************************************************************************)
\* "relax UiO-66"
TxtRelaxUiO66 == <<"r","e","l","a","x"," ","U","i","O","-","6","6">>

\* "adsorption CO2 in ZIF-8"
TxtAdsorption ==
    <<"a","d","s","o","r","p","t","i","o","n"," ","C","O","2"," ","i","n"," ",
      "Z","I","F","-","8">>

\* "relax UiO-67"
TxtRelaxUiO67 == <<"r","e","l","a","x"," ","U","i","O","-","6","7">>

\* "relaxation"
TxtRelaxation == <<"r","e","l","a","x","a","t","i","o","n">>

\* "reject"
TxtReject == <<"r","e","j","e","c","t">>

TxtR1 == <<"r","1">>

TxtR2 == <<"r","2">>

TxtR3 == <<"r","3">>

\* "relax UiO-66 structure"
QueryScenario ==
    <<"r","e","l","a","x"," ","U","i","O","-","6","6"," ",
      "s","t","r","u","c","t","u","r","e">>

\* "?!"
QueryPunct == <<"?","!">>

\* "a b"
QueryShort == <<"a"," ","b">>

\* "zzz"
QueryNoMatch == <<"z","z","z">>

Rec1 == Dict([exp_id |-> Str(TxtR1), query_original |-> Str(TxtRelaxUiO66)])

Rec2 == Dict([exp_id |-> Str(TxtR2), query_original |-> Str(TxtAdsorption)])

Rec3 == Dict([exp_id |-> Str(TxtR3), query_original |-> Str(TxtRelaxUiO67)])

\* A record as main() writes it on the reject path (run.py 136-145) when the
\* intent names no structure; its exp_id repeats Rec2's, as two draws of
\* make_exp_id on one day can.
Rec4 ==
    Dict([exp_id          |-> Str(TxtR2),
          query_original  |-> Str(TxtRelaxUiO66),
          query_canonical |-> Str(<<>>),
          mof_name        |-> None,
          task_type       |-> Str(TxtRelaxation),
          verdict_status  |-> Str(TxtReject)])

\* A record with a value json.dumps cannot encode.
RecSet == Dict([exp_id |-> Str(TxtR3), tags |-> PySet({PyInt(1)})])

Records == {Rec1, Rec2, Rec3, Rec4, RecSet}

Queries == {<<>>, QueryPunct, QueryShort, QueryNoMatch, QueryScenario}

(***************************************************************************)
(* The calls.                                                              *)
(***************************************************************************)
\* No page is being chunked.
NoPage == [pc |-> "idle"]

\* No document directory is in use.
NoLibrary == [pc |-> "idle"]

\* main() has not been started.
NoRun == [pc |-> "idle"]

\* No process is using the store concurrently.
NoCallers == [pc |-> "idle"]

\* A call and its outcome; record is the argument of append.
Call(op, query, k, out) ==
    [op |-> op, query |-> query, k |-> k, record |-> None,
     raised |-> out.raised, value |-> out.value, idx |-> out.idx]

NoCall == Call("init", <<>>, 0, ReturnedNone)

\* The store as __init__ leaves it: directory and file exist.
StoreReady == [dir |-> "present", file |-> TRUE, store |-> "ready"]

CallAppend(record) ==
    /\ fs.store = "ready"
    /\ Len(appended) < MaxAppends
    /\ IF Serializable(record)
       THEN /\ file' = append(file, max_items, record)
            /\ appended' = Append(appended, record)
            /\ ret' = [Call("append", <<>>, 0, ReturnedNone)
                          EXCEPT !.record = record]
       ELSE /\ file' = AppendFailed(file)
            /\ appended' = appended
            /\ ret' = [Call("append", <<>>, 0, Raised("TypeError"))
                          EXCEPT !.record = record]
    /\ UNCHANGED <<max_items, fs, beyondStore>>

CallLoadAll ==
    /\ fs.store = "ready"
    /\ ret' = Call("load_all", <<>>, 0,
                   [raised |-> "", value |-> load_all(file), idx |-> <<>>])
    /\ UNCHANGED <<max_items, file, appended, fs, beyondStore>>

\* A retrieve that runs the trim pass with k as the cap.
CallRetrieveTrims(query, k) ==
    /\ fs.store = "ready"
    /\ ret' = Call("retrieve", query, k, retrieve(file, query, k))
    /\ file' = trim_if_needed(file, k)
    /\ UNCHANGED <<max_items, appended, fs, beyondStore>>

CallRetrieve(query, k) ==
    /\ fs.store = "ready"
    /\ ret' = Call("retrieve", query, k, retrieve(file, query, k))
    /\ UNCHANGED <<max_items, file, appended, fs, beyondStore>>

\* format_context on what the last retrieve returned (run.py 77-78).
CallFormatContext ==
    /\ fs.store = "ready"
    /\ ret.op = "retrieve"
    /\ ret.raised = ""
    /\ ret' = Call("format_context", ret.query, ret.k, format_context(ret.value))
    /\ UNCHANGED <<max_items, file, appended, fs, beyondStore>>

Next ==
    \/ \E record \in Records : CallAppend(record)
    \/ CallLoadAll
    \/ \E query \in Queries, k \in 0..MaxK : CallRetrieve(query, k)
    \/ CallFormatContext

\* MemoryStore(path, max_items) on a path that does not exist yet
\* (store.py 32-48): the file is created empty.
Init ==
    /\ max_items \in {0, SmallCap}
    /\ file = EmptyFile
    /\ ret = NoCall
    /\ appended = <<>>
    /\ fs = StoreReady
    /\ chunker = NoPage
    /\ rag = NoLibrary
    /\ conc = NoCallers
    /\ run = NoRun

Spec == Init /\ [][Next]_vars

(***************************************************************************)
(* The store opened over a log file that exists already: __init__ leaves   *)
(* an existing file as it is (store.py 46-48).                             *)
(***************************************************************************)
\* The JSON array [1, 2]
JsonOneTwo ==
    [t |-> "array", v |-> <<[t |-> "number", v |-> 1], [t |-> "number", v |-> 2]>>]

\* A record line followed by the start of one: an append that was cut short.
LogCutShort ==
    [lines |-> <<JsonLine(JsonDumps(Rec1)), BadLine>>, nl |-> FALSE]

\* Blank and garbage lines between record lines.
LogGarbage ==
    [lines |-> <<BlankLine, JsonLine(JsonDumps(Rec2)), BadLine,
                 JsonLine(JsonDumps(Rec3))>>,
     nl |-> TRUE]

\* A line whose JSON text is an array, not an object.
LogNonObject ==
    [lines |-> <<JsonLine(JsonDumps(Rec1)), JsonLine(JsonOneTwo)>>, nl |-> TRUE]

ExistingLogs == {LogCutShort, LogGarbage, LogNonObject}

InitLog ==
    /\ max_items \in {0, SmallCap}
    /\ file \in ExistingLogs
    /\ ret = NoCall
    /\ appended = <<>>
    /\ fs = StoreReady
    /\ chunker = NoPage
    /\ rag = NoLibrary
    /\ conc = NoCallers
    /\ run = NoRun

SpecLog == InitLog /\ [][Next]_vars

(***************************************************************************)
(* The store created with max_items <= 0 (store.py 143-144).               *)
(***************************************************************************)
InitNoTrim ==
    /\ max_items \in {-1, 0}
    /\ file = EmptyFile
    /\ ret = NoCall
    /\ appended = <<>>
    /\ fs = StoreReady
    /\ chunker = NoPage
    /\ rag = NoLibrary
    /\ conc = NoCallers
    /\ run = NoRun

SpecNoTrim == InitNoTrim /\ [][Next]_vars

(***************************************************************************)
(* MemoryStore.__init__ (store.py 32-48) over a file system: the directory *)
(* of the path is present, absent, or absent and impossible to create      *)
(* ("blocked"); the file exists or not.                                    *)
(***************************************************************************)
\* os.makedirs(dirname, exist_ok=True): raises OSError when the directory
\* is missing and cannot be created.
MakeDirsRaises(fsys) == fsys.dir = "blocked"

\* A constructor that opens the file with "w" whether it exists or not.
InitFileTruncates(fsys, f) == IF MakeDirsRaises(fsys) THEN f ELSE EmptyFile

\* The file after __init__: created empty when it does not exist, left as
\* it is otherwise, and not reached when makedirs raised.
InitFile(fsys, f) ==
    IF MakeDirsRaises(fsys) THEN f
    ELSE IF fsys.file THEN f
    ELSE EmptyFile

\* MemoryStore(path, max_items)
Construct ==
    /\ ret' = Call("__init__", <<>>, 0,
                   IF MakeDirsRaises(fs) THEN Raised("OSError") ELSE ReturnedNone)
    /\ fs' = IF MakeDirsRaises(fs) THEN fs ELSE StoreReady
    /\ file' = InitFile(fs, file)
    /\ UNCHANGED <<max_items, appended, beyondStore>>

\* The file systems a store is constructed over.
FileSystems ==
    { [dir |-> d, file |-> e, store |-> "none"] :
        d \in {"present", "absent", "blocked"}, e \in BOOLEAN }
    \ { [dir |-> d, file |-> TRUE, store |-> "none"] : d \in {"absent", "blocked"} }

InitFs ==
    /\ max_items \in {0, SmallCap}
    /\ fs \in FileSystems
    /\ file \in (IF fs.file THEN ExistingLogs ELSE {EmptyFile})
    /\ ret = NoCall
    /\ appended = <<>>
    /\ chunker = NoPage
    /\ rag = NoLibrary
    /\ conc = NoCallers
    /\ run = NoRun

NextFs ==
    \/ Construct
    \/ \E record \in {Rec1, Rec3, RecSet} : CallAppend(record)
    \/ CallLoadAll

SpecFs == InitFs /\ [][NextFs]_vars

(***************************************************************************)
(* local_rag: the chunking loop of _extract_chunks_from_pdf over one page  *)
(* (local_rag.py 44-65).                                                   *)
(***************************************************************************)
CHUNK_SIZE == 1500

CHUNK_OVERLAP == 200

\* The longest page text of the model.
MaxPageLen == 4200

Max(a, b) == IF a >= b THEN a ELSE b

\* The characters str.strip() removes.
Whitespace == {" ", "\n", "\t"}

\* s.strip()
Strip(s) ==
    IF \A i \in DOMAIN s : s[i] \in Whitespace
    THEN <<>>
    ELSE LET first == CHOOSE i \in DOMAIN s :
                          /\ s[i] \notin Whitespace
                          /\ \A j \in 1..(i - 1) : s[j] \in Whitespace
             last  == CHOOSE i \in DOMAIN s :
                          /\ s[i] \notin Whitespace
                          /\ \A j \in (i + 1)..Len(s) : s[j] \in Whitespace
         IN  SubSeq(s, first, last)

\* A loop that starts the next window where the last one ended.
NextStartNoOverlap(end) == end

\* start = max(0, end - CHUNK_OVERLAP)
NextStart(end) == Max(0, end - CHUNK_OVERLAP)

\* text = (page.get_text("text") or "").strip(); a page without text is
\* skipped, otherwise start = 0 and n = len(text).  windows is history:
\* the <<start, end>> of every iteration.
StartPage(raw) ==
    LET text == Strip(raw)
    IN  [pc      |-> IF text = <<>> THEN "done" ELSE "loop",
         text    |-> text,
         n       |-> Len(text),
         start   |-> 0,
         chunks  |-> <<>>,
         windows |-> <<>>]

\* One evaluation of the while condition and, when it holds, of the body.
ChunkIter(c) ==
    IF ~(c.start < c.n)
    THEN [c EXCEPT !.pc = "done"]
    ELSE LET end        == Min(c.start + CHUNK_SIZE, c.n)
             chunk_text == Strip(SubSeq(c.text, c.start + 1, end))
         IN  [c EXCEPT
                !.chunks  = IF chunk_text # <<>> THEN Append(@, chunk_text) ELSE @,
                !.windows = Append(@, <<c.start, end>>),
                !.pc      = IF end >= c.n THEN "done" ELSE "loop",
                !.start   = IF end >= c.n THEN @ ELSE NextStart(end)]

\* The loop run to its end.
RECURSIVE ChunkLoop(_)
ChunkLoop(c) == IF c.pc = "done" THEN c ELSE ChunkLoop(ChunkIter(c))

\* The chunk texts of one page.
ChunkPage(raw) == ChunkLoop(StartPage(raw)).chunks

\* Page texts: n characters, none of them white space; the same between a
\* newline and a space; with every tenth character a space; with the whole
\* second window blank; and a page of white space only.
PageLengths == { n \in 1..MaxPageLen : n % 100 \in {0, 1, 99} }

BlankPage == <<" ", "\n", " ">>

Pages ==
    LET Solid(n) == [i \in 1..n |-> "x"]
        Padded(n) == <<"\n">> \o Solid(n) \o <<" ">>
        Spaced(n) == [i \in 1..n |-> IF i % 10 = 0 THEN " " ELSE "x"]
        Gapped(n) ==
            [i \in 1..n |->
                IF i > CHUNK_SIZE - CHUNK_OVERLAP
                   /\ i <= 2 * CHUNK_SIZE - CHUNK_OVERLAP
                THEN "\t" ELSE "x"]
    IN  {BlankPage}
        \cup { Solid(n) : n \in PageLengths }
        \cup { Padded(n) : n \in PageLengths }
        \cup { Spaced(n) : n \in PageLengths }
        \cup { Gapped(n) : n \in PageLengths }

\* page.get_text("text") and the strip (local_rag.py 45-47)
GetText ==
    /\ chunker.pc = "page"
    /\ chunker' = StartPage(chunker.raw)
    /\ UNCHANGED <<max_items, file, ret, appended, fs, rag, run, conc>>

\* One iteration of the while loop (local_rag.py 51-65)
LoopStep ==
    /\ chunker.pc = "loop"
    /\ chunker' = ChunkIter(chunker)
    /\ UNCHANGED <<max_items, file, ret, appended, fs, rag, run, conc>>

InitChunk ==
    /\ chunker \in { [pc |-> "page", raw |-> raw] : raw \in Pages }
    /\ max_items = 0
    /\ file = EmptyFile
    /\ ret = NoCall
    /\ appended = <<>>
    /\ fs = StoreReady
    /\ rag = NoLibrary
    /\ conc = NoCallers
    /\ run = NoRun

NextChunk == GetText \/ LoopStep

\* The loop is a sequential program: a step that can be taken is taken.
SpecChunk == InitChunk /\ [][NextChunk]_vars /\ WF_vars(NextChunk)

(***************************************************************************)
(* local_rag: _score_chunk (local_rag.py 72-86).                           *)
(***************************************************************************)
\* The characters \w matches among those of the model's texts.
WChars == Uppercase \cup Lowercase \cup Digits \cup {"_"}

\* re.findall(r"\w+", text): the maximal runs of \w characters.
RECURSIVE FindWords(_, _, _, _)
FindWords(text, i, start, acc) ==
    IF i > Len(text)
    THEN IF start = 0 THEN acc ELSE Append(acc, SubSeq(text, start, Len(text)))
    ELSE IF text[i] \in WChars
         THEN FindWords(text, i + 1, IF start = 0 THEN i ELSE start, acc)
         ELSE FindWords(text, i + 1, 0,
                        IF start = 0 THEN acc
                        ELSE Append(acc, SubSeq(text, start, i - 1)))

\* re.findall(r"\w+", s.lower())
Words(s) == FindWords(Lower(s), 1, 0, <<>>)

\* A score: the float num / den.
Frac(num, den) == [num |-> num, den |-> den]

\* 0.0
Zero == Frac(0, 1)

FracLess(a, b) == a.num * b.den < b.num * a.den

FracEq(a, b) == a.num * b.den = b.num * a.den

\* A score that counts every occurrence of a query word, repeated or not.
score_chunk_per_occurrence(query, text) ==
    LET query_words == Words(query)
        text_tokens == Words(text)
    IN  IF query_words = <<>> \/ text_tokens = <<>> THEN Zero
        ELSE Frac(Cardinality({ i \in DOMAIN query_words :
                                   query_words[i] \in Range(text_tokens) }),
                  Cardinality(Range(query_words)))

\* _score_chunk(query, text)
score_chunk(query, text) ==
    LET query_tokens == Range(Words(query))
        text_tokens  == Words(text)
    IN  IF query_tokens = {} THEN Zero
        ELSE IF text_tokens = <<>> THEN Zero
        ELSE Frac(Cardinality({ t \in query_tokens : t \in Range(text_tokens) }),
                  Cardinality(query_tokens))

(***************************************************************************)
(* local_rag: the document directory, _ensure_pdf_dir and                  *)
(* _extract_chunks_from_pdf (local_rag.py 23-69).                          *)
(***************************************************************************)
\* The directory LOCAL_PDF_DIR names is "present"; "absent" and creatable;
\* "readonly": absent under a directory the process cannot write to; or
\* "unreachable": under a directory the process cannot search.

\* _ensure_pdf_dir(): mkdir(parents=True, exist_ok=True), errors swallowed.
ensure_pdf_dir(dir) == IF dir = "absent" THEN "present" ELSE dir

\* LOCAL_PDF_DIR.exists(): stat() of the path; pathlib turns a missing path
\* into False and lets PermissionError through.
ExistsRaises(dir) == dir = "unreachable"

Exists(dir) == dir = "present"

\* A document: its file name, whether fitz.open accepts it, and its pages;
\* a page is its text, or raises when its text is asked for.
Doc(name, opens, pages) == [name |-> name, opens |-> opens, pages |-> pages]

PageOf(text) == [text |-> text, raises |-> FALSE]

PageRaising == [text |-> <<>>, raises |-> TRUE]

\* Path.glob("*.pdf"): the names that end in .pdf.
IsPdf(name) ==
    Len(name) >= 4 /\ SubSeq(name, Len(name) - 3, Len(name)) = <<".","p","d","f">>

\* The chunks of page page_idx (from 0) of a document.
PageChunks(name, page_idx, page) ==
    LET texts == ChunkPage(page.text)
    IN  [i \in DOMAIN texts |->
            [source |-> name, page |-> page_idx, text |-> texts[i]]]

RECURSIVE DocChunks(_, _, _)
DocChunks(doc, page_idx, chunks) ==
    IF page_idx >= Len(doc.pages) THEN chunks
    ELSE DocChunks(doc, page_idx + 1,
                   chunks \o PageChunks(doc.name, page_idx, doc.pages[page_idx + 1]))

\* Whether _extract_chunks_from_pdf raises: fitz.open or a page's get_text
\* does; the chunks collected before are lost with the exception.
ExtractRaises(doc) ==
    \/ ~doc.opens
    \/ \E i \in DOMAIN doc.pages : doc.pages[i].raises

\* _extract_chunks_from_pdf(pdf_path) when it returns.
extract_chunks_from_pdf(doc) == DocChunks(doc, 0, <<>>)

\* The loop over glob("*.pdf"): a document that raises is passed over.
RECURSIVE AllChunks(_)
AllChunks(docs) ==
    IF docs = <<>> THEN <<>>
    ELSE LET doc == Head(docs)
         IN  IF IsPdf(doc.name) /\ ~ExtractRaises(doc)
             THEN extract_chunks_from_pdf(doc) \o AllChunks(Tail(docs))
             ELSE AllChunks(Tail(docs))

(***************************************************************************)
(* local_rag: local_rag_search (local_rag.py 89-143).                      *)
(***************************************************************************)
MAX_TOP_CHUNKS == 5

\* scored: the positions in all_chunks of the chunks with score > 0.
RECURSIVE Positive(_, _)
Positive(scores, i) ==
    IF i > Len(scores) THEN <<>>
    ELSE IF FracLess(Zero, scores[i])
         THEN <<i>> \o Positive(scores, i + 1)
         ELSE Positive(scores, i + 1)

\* An insertion that puts a position before the ones of equal score.
RECURSIVE RagInsertBeforeEqual(_, _, _)
RagInsertBeforeEqual(sorted, e, scores) ==
    IF sorted = <<>> THEN <<e>>
    ELSE IF ~FracLess(scores[e], scores[Head(sorted)])
         THEN <<e>> \o sorted
         ELSE <<Head(sorted)>> \o RagInsertBeforeEqual(Tail(sorted), e, scores)

\* scored.sort(key=score, reverse=True) is stable: a position goes behind
\* every position of greater or equal score sorted before it.
RECURSIVE RagInsert(_, _, _)
RagInsert(sorted, e, scores) ==
    IF sorted = <<>> THEN <<e>>
    ELSE IF FracLess(scores[Head(sorted)], scores[e])
         THEN <<e>> \o sorted
         ELSE <<Head(sorted)>> \o RagInsert(Tail(sorted), e, scores)

RECURSIVE RagSort(_, _, _)
RagSort(todo, sorted, scores) ==
    IF todo = <<>> THEN sorted
    ELSE RagSort(Tail(todo), RagInsert(sorted, Head(todo), scores), scores)

DigitSeq == <<"0","1","2","3","4","5","6","7","8","9">>

\* str(n) for n >= 0
RECURSIVE Decimal(_)
Decimal(n) ==
    IF n < 10 THEN <<DigitSeq[n + 1]>>
    ELSE Decimal(n \div 10) \o <<DigitSeq[(n % 10) + 1]>>

\* f"[{src} p.{page}] {snippet}" with page = int(ch["page"]) + 1
ContextPart(ch) ==
    <<"[">> \o ch.source \o <<" ","p",".">> \o Decimal(ch.page + 1)
        \o <<"]"," ">> \o ch.text

\* "\n\n".join(parts)
RECURSIVE JoinBlankLine(_)
JoinBlankLine(parts) ==
    IF parts = <<>> THEN <<>>
    ELSE IF Len(parts) = 1 THEN parts[1]
    ELSE parts[1] \o <<"\n","\n">> \o JoinBlankLine(Tail(parts))

\* The entry of refs for a chunk.
Ref(ch, score) == [source |-> ch.source, page |-> ch.page + 1, score |-> score]

\* What local_rag_search gives back: the context string and the references,
\* or an exception; idx is history, the positions in all_chunks of the
\* chunks returned.
RagReturn(ctx, refs, idx) == [raised |-> "", ctx |-> ctx, refs |-> refs, idx |-> idx]

\* return "", []
RagEmpty == RagReturn(<<>>, <<>>, <<>>)

RagRaise(what) == [raised |-> what, ctx |-> <<>>, refs |-> <<>>, idx |-> <<>>]

\* Lines 104-143: gather, score, filter, sort, cut, format.
SearchDocs(docs, query) ==
    LET all_chunks == AllChunks(docs)
        scores     == [i \in DOMAIN all_chunks |->
                          score_chunk(query, all_chunks[i].text)]
        scored     == Positive(scores, 1)
        top        == FirstSlice(RagSort(scored, <<>>, scores), MAX_TOP_CHUNKS)
    IN  IF all_chunks = <<>> THEN RagEmpty
        ELSE IF scored = <<>> THEN RagEmpty
        ELSE RagReturn(
               JoinBlankLine([i \in DOMAIN top |-> ContextPart(all_chunks[top[i]])]),
               [i \in DOMAIN top |-> Ref(all_chunks[top[i]], scores[top[i]])],
               top)

\* local_rag_search(query) on a library; the directory is the one
\* _ensure_pdf_dir left.  "fitz is None or not LOCAL_PDF_DIR.exists()"
\* asks for the directory only when fitz is there.
local_rag_search(lib, query) ==
    LET dir == ensure_pdf_dir(lib.dir)
    IN  IF ~lib.fitz THEN RagEmpty
        ELSE IF ExistsRaises(dir) THEN RagRaise("PermissionError")
        ELSE IF ~Exists(dir) THEN RagEmpty
        ELSE SearchDocs(lib.docs, query)

(***************************************************************************)
(* local_rag: libraries, queries and calls.                                *)
(***************************************************************************)
\* Page texts, texts to score and a query that repeats a token.
RagText ==
    [relax_one |->
        <<"r","e","l","a","x"," ","o","n","e">>,
      relax_uio_two |->
        <<"R","e","l","a","x"," ","U","i","O"," ","t","w","o">>,
      nothing |->
        <<"n","o","t","h","i","n","g">>,
      all_four |->
        <<"r","e","l","a","x"," ","u","i","o"," ","6","6"," ","s","t","r","u",
          "c","t","u","r","e">>,
      relax_c1 |->
        <<"r","e","l","a","x"," ","c","1">>,
      uio_d1 |->
        <<"u","i","o"," ","d","1">>,
      sixty_six_d2 |->
        <<"6","6"," ","d","2">>,
      structure_d3 |->
        <<"s","t","r","u","c","t","u","r","e"," ","d","3">>,
      relax_uio_d4 |->
        <<"r","e","l","a","x"," ","u","i","o"," ","d","4">>,
      three_of_four |->
        <<"R","e","l","a","x"," ","u","i","o"," ","6","6">>,
      query_repeats |->
        <<"u","i","o"," ","u","i","o"," ","r","e","l","a","x">>]

\* File names in LOCAL_PDF_DIR: four end in .pdf, one does not.
FileName ==
    [a |->
        <<"a",".","p","d","f">>,
      b |->
        <<"b",".","p","d","f">>,
      c |->
        <<"c",".","p","d","f">>,
      d |->
        <<"d",".","p","d","f">>,
      n |->
        <<"n",".","t","x","t">>]

\* Directory contents, in the order glob yields them: a five-page document
\* with a blank page; a file fitz.open rejects; a document whose second page
\* raises in get_text; a four-page document; a file glob("*.pdf") skips.
Listings ==
    LET DocA == Doc(FileName.a, TRUE,
                    <<PageOf(RagText.relax_one), PageOf(RagText.relax_uio_two),
                      PageOf(BlankPage), PageOf(RagText.nothing),
                      PageOf(RagText.all_four)>>)
        DocB == Doc(FileName.b, FALSE, <<>>)
        DocC == Doc(FileName.c, TRUE, <<PageOf(RagText.relax_c1), PageRaising>>)
        DocD == Doc(FileName.d, TRUE,
                    <<PageOf(RagText.uio_d1), PageOf(RagText.sixty_six_d2),
                      PageOf(RagText.structure_d3), PageOf(RagText.relax_uio_d4)>>)
        DocN == Doc(FileName.n, TRUE, <<PageOf(RagText.all_four)>>)
    IN  { <<>>, <<DocN>>, <<DocB>>, <<DocB, DocC>>, <<DocA>>, <<DocD, DocA>>,
          <<DocC, DocD, DocB>>, <<DocA, DocC, DocB, DocD, DocN>> }

Dirs == {"present", "absent", "readonly", "unreachable"}

RagQueries == {<<>>, QueryPunct, QueryNoMatch, QueryScenario, RagText.query_repeats}

ScoreTexts == {<<>>, QueryPunct, RagText.nothing, RagText.three_of_four, RagText.all_four, RagText.uio_d1}

RagCall(op, query, text, dir, out) ==
    [op |-> op, query |-> query, text |-> text, dir |-> dir, out |-> out]

NoRagCall == RagCall("none", <<>>, <<>>, "present", RagEmpty)

Libraries ==
    { [pc |-> "lib", dir |-> d, fitz |-> f, docs |-> l, call |-> NoRagCall] :
        d \in Dirs, f \in BOOLEAN, l \in Listings }

CallScoreChunk(query, text) ==
    /\ rag.pc = "lib"
    /\ rag' = [rag EXCEPT !.call = RagCall("_score_chunk", query, text, rag.dir,
                                           score_chunk(query, text))]
    /\ UNCHANGED <<max_items, file, ret, appended, fs, chunker, run, conc>>

CallSearch(query) ==
    /\ rag.pc = "lib"
    /\ rag' = [rag EXCEPT
                 !.dir  = ensure_pdf_dir(@),
                 !.call = RagCall("local_rag_search", query, <<>>, rag.dir,
                                  local_rag_search(rag, query))]
    /\ UNCHANGED <<max_items, file, ret, appended, fs, chunker, run, conc>>

\* A directory that does not exist holds no files.
InitRag ==
    /\ rag \in { lib \in Libraries : lib.dir # "present" => lib.docs = <<>> }
    /\ max_items = 0
    /\ file = EmptyFile
    /\ ret = NoCall
    /\ appended = <<>>
    /\ fs = StoreReady
    /\ chunker = NoPage
    /\ run = NoRun
    /\ conc = NoCallers

NextRag ==
    \/ \E query \in RagQueries, text \in ScoreTexts : CallScoreChunk(query, text)
    \/ \E query \in RagQueries : CallSearch(query)

SpecRag == InitRag /\ [][NextRag]_vars

(***************************************************************************)
(* main() (run.py 38-184), the graph it invokes (graph.py 74-200), and     *)
(* make_exp_id (ids.py 10-22).                                             *)
(***************************************************************************)
\* The number of runs of main() on one memory log.
MaxRuns == 2

\* AppConfig defaults (config.py 32-33) and the k of fast mode (config.py 66).
MEMORY_MAX_ITEMS == 50

MEMORY_RETRIEVE_K == 5

FAST_RETRIEVE_K == 1

\* Texts of a run: the verdict statuses the novelty chain can give besides
\* "reject", a structure name step_intent extracts, the rationale of the
\* verdict step_retrieve injects in fast mode and one the novelty chain
\* gives, the prefix main() passes to make_exp_id, an exp_id the spec chain
\* makes up instead of repeating the one given, and what arXiv gives
\* step_retrieve when the fetch works.
RunText ==
    [pass |-> <<"p","a","s","s">>,
     uncertain |-> <<"u","n","c","e","r","t","a","i","n">>,
     uio66 |-> <<"U","i","O","-","6","6">>,
     fast_rationale |->
        <<"(","f","a","s","t"," ","m","o","d","e",":"," ","n","o","v","e","l",
          "t","y"," ","c","h","e","c","k"," ","s","k","i","p","p","e","d",")">>,
     rationale |-> <<"k","n","o","w","n">>,
     mof |-> <<"m","o","f">>,
     invented_id |-> <<"m","o","f","-","1">>,
     literature |-> <<"T","I","T","L","E">>]

\* strftime("%Y%m%d") on one day and on the next
Dates ==
    << <<"2","0","2","6","0","1","0","1">>, <<"2","0","2","6","0","1","0","2">> >>

\* Two of the 10^4 outcomes of random.choices(string.digits, k=4).
Suffixes == { <<"0","0","0","7">>, <<"4","2","4","2">> }

\* make_exp_id(prefix): f"{prefix}-{date}-{suffix}"
make_exp_id(prefix, date, suffix) == prefix \o <<"-">> \o date \o <<"-">> \o suffix

\* datetime.utcnow().isoformat() + "Z" in the n-th run: later runs have
\* later times.
Timestamp(n) == <<"T">> \o Decimal(n) \o <<"Z">>

\* sys.argv without a query, with a blank one, and with a query.
Argvs ==
    { [given |-> FALSE, text |-> <<>>],
      [given |-> TRUE, text |-> <<" ", " ">>],
      [given |-> TRUE, text |-> TxtRelaxUiO66] }

\* The objects the chains return.
QueryIntent(mof_name) == [mof_name |-> mof_name, task_hint |-> Str(TxtRelaxation)]

CanonicalQuery(text) == [query_canonical |-> text]

NoveltyVerdict(status, rationale) == [status |-> status, rationale |-> rationale]

ExperimentSpec(exp_id, query_original, query_canonical) ==
    [exp_id          |-> exp_id,
     query_original  |-> query_original,
     query_canonical |-> query_canonical,
     structure       |-> Dict([id |-> Str(RunText.uio66)]),
     task            |-> Dict([type |-> Str(TxtRelaxation)])]

\* Python's x or y on strings and None.
Or(x, y) == IF x = None \/ x = Str(<<>>) THEN y ELSE x

\* The record of the reject path (run.py 136-145).
RejectRecord(r) ==
    Dict([timestamp         |-> Str(Timestamp(r.n)),
          exp_id            |-> Str(r.exp_id),
          query_original    |-> Str(r.query_original),
          query_canonical   |-> IF r.canonical # None
                                THEN Str(r.canonical.query_canonical)
                                ELSE Str(<<>>),
          mof_name          |-> IF r.intent # None THEN r.intent.mof_name
                                ELSE Str(<<>>),
          task_type         |-> IF r.intent # None THEN r.intent.task_hint
                                ELSE Str(<<>>),
          verdict_status    |-> Str(TxtReject),
          verdict_rationale |-> Str(r.novelty.rationale)])

\* The record of the pass path (run.py 175-184).
PassRecord(r) ==
    Dict([timestamp         |-> Str(Timestamp(r.n)),
          exp_id            |-> Str(r.spec.exp_id),
          query_original    |-> Str(r.spec.query_original),
          query_canonical   |-> Str(r.spec.query_canonical),
          mof_name          |-> Or(IF r.intent # None THEN r.intent.mof_name
                                   ELSE Str(<<>>),
                                   Get(r.spec.structure, "id", Str(<<>>))),
          task_type         |-> Get(r.spec.task, "type", Str(<<>>)),
          verdict_status    |-> IF r.novelty # None THEN Str(r.novelty.status)
                                ELSE Str(RunText.pass),
          verdict_rationale |-> IF r.novelty # None THEN Str(r.novelty.rationale)
                                ELSE Str(<<>>)])

\* main() between runs: n runs started so far, the last on Dates[day].
\* events and base are history: what the run did, in order, and how many
\* records had been appended to the log when it started.
RunStart(n, day) ==
    [pc |-> "start", n |-> n, day |-> day, exit |-> "",
     query_original |-> <<>>, fast_mode |-> FALSE,
     retrieved |-> <<>>, memory_context |-> <<>>, exp_id |-> <<>>,
     intent |-> None, canonical |-> None, literature_text |-> <<>>,
     novelty |-> None, spec |-> None, written |-> FALSE,
     events |-> <<>>, base |-> 0]

\* The run r with its next position, and the event that took it there.
Moved(r, pc, event) == [r EXCEPT !.pc = pc, !.events = Append(@, event)]

\* The run ended: sys.exit(code), the return of main(), or an exception.
Ended(r, code) == [r EXCEPT !.pc = "shell", !.exit = code]

Verdicts == {RunText.pass, TxtReject, RunText.uncertain}

\* if novelty and novelty.status == "reject" (run.py 128, graph.py 166)
Rejected(r) == r.novelty # None /\ r.novelty.status = TxtReject

\* main() is entered: argv, load_config, the OPENAI_API_KEY check
\* (run.py 38-67).  The run starts on the day of the last one or the next.
StartRun(argv, key, fast, day) ==
    /\ run.pc = "shell"
    /\ run.n < MaxRuns
    /\ day \in {run.day, run.day + 1}
    /\ day <= Len(Dates)
    /\ LET r == [RunStart(run.n + 1, day) EXCEPT
                   !.base = Len(appended), !.fast_mode = fast]
       IN  run' = IF ~argv.given THEN Ended(r, "1")
                  ELSE IF Strip(argv.text) = <<>> THEN Ended(r, "1")
                  ELSE IF ~key THEN Ended(r, "raised")
                  ELSE [r EXCEPT !.pc = "memory",
                                 !.query_original = Strip(argv.text)]
    /\ UNCHANGED <<max_items, file, ret, appended, fs, chunker, rag, conc>>

\* mem = MemoryStore(...); retrieved = mem.retrieve(query_original, k);
\* memory_context = mem.format_context(retrieved) (run.py 76-78)
OpenMemory ==
    /\ run.pc = "memory"
    /\ LET f         == InitFile(fs, file)
           k         == IF run.fast_mode THEN FAST_RETRIEVE_K ELSE MEMORY_RETRIEVE_K
           retrieved == retrieve(f, run.query_original, k).value
       IN  /\ file' = f
           /\ run' = [Moved(run, "exp_id", "mem.retrieve") EXCEPT
                        !.retrieved = retrieved,
                        !.memory_context = format_context(retrieved).value]
    /\ fs' = StoreReady
    /\ UNCHANGED <<max_items, ret, appended, chunker, rag, conc>>

\* exp_id = make_exp_id("mof"); the graph is built and its state prepared
\* (run.py 86-107)
MakeExpId(suffix) ==
    /\ run.pc = "exp_id"
    /\ run' = [run EXCEPT !.pc = "intent",
                          !.exp_id = make_exp_id(RunText.mof, Dates[run.day], suffix)]
    /\ UNCHANGED <<max_items, file, ret, appended, fs, chunker, rag, conc>>

\* step_intent (graph.py 74-83): the chain returns an intent, with or
\* without a structure name, or raises.
StepIntent(ok, mof_name) ==
    /\ run.pc = "intent"
    /\ run' = IF ~ok THEN Ended(Moved(run, "intent", "intent"), "raised")
              ELSE [Moved(run, "canonicalize", "intent") EXCEPT
                      !.intent = QueryIntent(mof_name)]
    /\ UNCHANGED <<max_items, file, ret, appended, fs, chunker, rag, conc>>

\* step_canonicalize (graph.py 85-96)
StepCanonicalize(ok) ==
    /\ run.pc = "canonicalize"
    /\ run' = IF ~ok THEN Ended(Moved(run, "canonicalize", "canonicalize"), "raised")
              ELSE [Moved(run, "retrieve", "canonicalize") EXCEPT
                      !.canonical = CanonicalQuery(run.query_original)]
    /\ UNCHANGED <<max_items, file, ret, appended, fs, chunker, rag, conc>>

\* A retrieve after which the graph goes on to novelty in fast mode too.
StepRetrieveToNovelty(arxiv_ok, rag_ok) ==
    /\ run.pc = "retrieve"
    /\ run' = IF ~rag_ok THEN Ended(Moved(run, "retrieve", "retrieve"), "raised")
              ELSE [Moved(run, "novelty", "retrieve")
                      EXCEPT
                      !.literature_text = IF arxiv_ok THEN RunText.literature ELSE <<>>,
                      !.novelty = IF run.fast_mode
                                  THEN NoveltyVerdict(RunText.pass, RunText.fast_rationale)
                                  ELSE @]
    /\ UNCHANGED <<max_items, file, ret, appended, fs, chunker, rag, conc>>

\* step_retrieve (graph.py 98-137) and route_after_retrieve (155-157): an
\* arXiv failure is swallowed, an exception of local_rag_search is not; in
\* fast mode a pass verdict is injected and the next node is spec.
StepRetrieve(arxiv_ok, rag_ok) ==
    /\ run.pc = "retrieve"
    /\ run' = IF ~rag_ok THEN Ended(Moved(run, "retrieve", "retrieve"), "raised")
              ELSE [Moved(run, IF run.fast_mode THEN "spec" ELSE "novelty", "retrieve")
                      EXCEPT
                      !.literature_text = IF arxiv_ok THEN RunText.literature ELSE <<>>,
                      !.novelty = IF run.fast_mode
                                  THEN NoveltyVerdict(RunText.pass, RunText.fast_rationale)
                                  ELSE @]
    /\ UNCHANGED <<max_items, file, ret, appended, fs, chunker, rag, conc>>

\* A novelty node after which the graph goes on to spec whatever the verdict.
StepNoveltyNoGate(ok, status) ==
    /\ run.pc = "novelty"
    /\ run' = IF ~ok THEN Ended(Moved(run, "novelty", "novelty"), "raised")
              ELSE [Moved(run, "spec", "novelty")
                      EXCEPT !.novelty = NoveltyVerdict(status, RunText.rationale)]
    /\ UNCHANGED <<max_items, file, ret, appended, fs, chunker, rag, conc>>

\* step_novelty (graph.py 139-153) and route_after_novelty (159-168)
StepNovelty(ok, status) ==
    /\ run.pc = "novelty"
    /\ run' = IF ~ok THEN Ended(Moved(run, "novelty", "novelty"), "raised")
              ELSE [Moved(run, IF status = TxtReject THEN "after" ELSE "spec", "novelty")
                      EXCEPT !.novelty = NoveltyVerdict(status, RunText.rationale)]
    /\ UNCHANGED <<max_items, file, ret, appended, fs, chunker, rag, conc>>

\* step_spec (graph.py 170-183): the chain raises, returns no object, or
\* returns a spec whose exp_id is the one given or one it made up.
StepSpec(outcome) ==
    /\ run.pc = "spec"
    /\ run' = CASE outcome = "raise" -> Ended(Moved(run, "spec", "spec"), "raised")
                [] outcome = "none"  -> Moved(run, "after", "spec")
                [] outcome = "echo"  ->
                     [Moved(run, "after", "spec") EXCEPT
                        !.spec = ExperimentSpec(run.exp_id, run.query_original,
                                                run.canonical.query_canonical)]
                [] outcome = "invented" ->
                     [Moved(run, "after", "spec") EXCEPT
                        !.spec = ExperimentSpec(RunText.invented_id, run.query_original,
                                                run.canonical.query_canonical)]
    /\ UNCHANGED <<max_items, file, ret, appended, fs, chunker, rag, conc>>

\* The reject branch (run.py 128-146): append, then sys.exit(0).
ExitReject ==
    /\ run.pc = "after"
    /\ Rejected(run)
    /\ file' = append(file, max_items, RejectRecord(run))
    /\ appended' = Append(appended, RejectRecord(run))
    /\ run' = Ended(Moved(run, "after", "mem.append"), "0")
    /\ UNCHANGED <<max_items, ret, fs, chunker, rag, conc>>

\* A run without a spec that leaves a record all the same.
ExitNoSpecAppends ==
    /\ run.pc = "after"
    /\ ~Rejected(run)
    /\ run.spec = None
    /\ file' = append(file, max_items, RejectRecord(run))
    /\ appended' = Append(appended, RejectRecord(run))
    /\ run' = Ended(Moved(run, "after", "mem.append"), "2")
    /\ UNCHANGED <<max_items, ret, fs, chunker, rag, conc>>

\* if spec is None: sys.exit(2) (run.py 153-156)
ExitNoSpec ==
    /\ run.pc = "after"
    /\ ~Rejected(run)
    /\ run.spec = None
    /\ run' = Ended(run, "2")
    /\ UNCHANGED <<max_items, file, ret, appended, fs, chunker, rag, conc>>

\* ensure_dir and write_json (run.py 160-162): the file is written, or an
\* OSError ends the run.
WriteSpec(ok) ==
    /\ run.pc = "after"
    /\ ~Rejected(run)
    /\ run.spec # None
    /\ run' = IF ~ok THEN Ended(run, "raised")
              ELSE [Moved(run, "written", "write_json") EXCEPT !.written = TRUE]
    /\ UNCHANGED <<max_items, file, ret, appended, fs, chunker, rag, conc>>

\* The append of the pass path (run.py 175-184); main() returns.
AppendPass ==
    /\ run.pc = "written"
    /\ file' = append(file, max_items, PassRecord(run))
    /\ appended' = Append(appended, PassRecord(run))
    /\ run' = Ended(Moved(run, "written", "mem.append"), "0")
    /\ UNCHANGED <<max_items, ret, fs, chunker, rag, conc>>

\* Before the first run: no memory directory, no log file.
InitRun ==
    /\ run = [RunStart(0, 1) EXCEPT !.pc = "shell"]
    /\ max_items = MEMORY_MAX_ITEMS
    /\ fs = [dir |-> "absent", file |-> FALSE, store |-> "none"]
    /\ file = EmptyFile
    /\ ret = NoCall
    /\ appended = <<>>
    /\ chunker = NoPage
    /\ rag = NoLibrary
    /\ conc = NoCallers

NextRun ==
    \/ \E argv \in Argvs, key \in BOOLEAN, fast \in BOOLEAN, day \in DOMAIN Dates :
          StartRun(argv, key, fast, day)
    \/ OpenMemory
    \/ \E suffix \in Suffixes : MakeExpId(suffix)
    \/ \E ok \in BOOLEAN, mof_name \in {None, Str(RunText.uio66)} : StepIntent(ok, mof_name)
    \/ \E ok \in BOOLEAN : StepCanonicalize(ok)
    \/ \E arxiv_ok \in BOOLEAN, rag_ok \in BOOLEAN : StepRetrieve(arxiv_ok, rag_ok)
    \/ \E ok \in BOOLEAN, status \in Verdicts : StepNovelty(ok, status)
    \/ \E outcome \in {"raise", "none", "echo", "invented"} : StepSpec(outcome)
    \/ ExitReject
    \/ ExitNoSpec
    \/ \E ok \in BOOLEAN : WriteSpec(ok)
    \/ AppendPass

SpecRun == InitRun /\ [][NextRun]_vars

(***************************************************************************)
(* Two processes inside MemoryStore.append on one log file (store.py       *)
(* 50-58, 142-154).  Each step is one access to the file: the append write *)
(* (open "a", write, close), the read of the trim pass (load_all), the     *)
(* truncation by open(path, "w"), and the write of the kept items when the *)
(* file is closed.                                                         *)
(***************************************************************************)
Procs == {"p", "q"}

\* The record of the n-th call of append: no two calls append the same one.
CallRecords == <<Rec1, Rec2, Rec3, Rec4>>

\* A process that is not inside append.
ConcIdle == [pc |-> "idle", record |-> None, keep |-> <<>>]

\* raced is history: some step changed the file while another process was
\* between the read and the end of the rewrite of its trim pass.  returned
\* is history too: the records whose append has returned.
ConcStart == [proc |-> [p \in Procs |-> ConcIdle], returned |-> {}, raced |-> FALSE]

\* p has read the items and not yet written them back (store.py 148-154).
InWindow(c, p) == c.proc[p].pc \in {"open", "flush"}

\* p changes the file inside the trim pass of another process.
Overlaps(c, p) == c.raced \/ \E q \in Procs \ {p} : InWindow(c, q)

\* append returns to its caller.
ConcReturn(c, p) ==
    [c EXCEPT !.proc[p] = ConcIdle, !.returned = @ \cup {c.proc[p].record}]

\* The handle of open(path, "w") writes at offset 0, over what other
\* processes put into the file after the truncation.  What stays of those
\* lines depends on the lengths in bytes: nothing, the last lines whole, or
\* the end of a line (which json.loads rejects) and the lines after it.
Leftover(lines) ==
    {<<>>}
    \cup { SubSeq(lines, i, Len(lines)) : i \in 2..Len(lines) }
    \cup { <<BadLine>> \o SubSeq(lines, i, Len(lines)) : i \in 2..(Len(lines) + 1) }

\* with open(self.path, "a") as f: f.write(json.dumps(record) + "\n")
\* (store.py 54-55)
ConcWrite(p) ==
    /\ conc.proc[p].pc = "idle"
    /\ Len(appended) < MaxAppends
    /\ LET record == CallRecords[Len(appended) + 1]
       IN  /\ file' = WriteLine(file, record)
           /\ appended' = Append(appended, record)
           /\ conc' = [conc EXCEPT !.proc[p] = [pc |-> "trim", record |-> record,
                                                keep |-> <<>>],
                                   !.raced = Overlaps(conc, p)]
    /\ UNCHANGED <<max_items, ret, fs, chunker, rag, run>>

\* A trim pass that keeps the oldest items.
ConcReadKeepsOldest(p) ==
    /\ conc.proc[p].pc = "trim"
    /\ LET items == load_all(file)
       IN  conc' = IF ~TrimNeeded(items, max_items)
                   THEN ConcReturn(conc, p)
                   ELSE [conc EXCEPT !.proc[p].pc = "open",
                                     !.proc[p].keep = FirstSlice(items, max_items)]
    /\ UNCHANGED <<max_items, file, ret, appended, fs, chunker, rag, run>>

\* _trim_if_needed up to the slice (store.py 146-151): return, or go on to
\* the rewrite with items[-max_items:].
ConcRead(p) ==
    /\ conc.proc[p].pc = "trim"
    /\ LET items == load_all(file)
       IN  conc' = IF ~TrimNeeded(items, max_items)
                   THEN ConcReturn(conc, p)
                   ELSE [conc EXCEPT !.proc[p].pc = "open",
                                     !.proc[p].keep = TrimKeep(items, max_items)]
    /\ UNCHANGED <<max_items, file, ret, appended, fs, chunker, rag, run>>

\* open(self.path, "w") (store.py 152): the file is empty at once.
ConcOpen(p) ==
    /\ conc.proc[p].pc = "open"
    /\ file' = EmptyFile
    /\ conc' = [conc EXCEPT !.proc[p].pc = "flush", !.raced = Overlaps(conc, p)]
    /\ UNCHANGED <<max_items, ret, appended, fs, chunker, rag, run>>

\* The writes of the loop reach the file when the with block closes it
\* (store.py 153-154); append returns.
ConcFlush(p, tail) ==
    /\ conc.proc[p].pc = "flush"
    /\ tail \in Leftover(file.lines)
    /\ LET keep == conc.proc[p].keep
       IN  file' = [lines |-> [i \in DOMAIN keep |-> JsonLine(JsonDumps(keep[i]))]
                              \o tail,
                    nl |-> TRUE]
    /\ conc' = [ConcReturn(conc, p) EXCEPT !.raced = Overlaps(conc, p)]
    /\ UNCHANGED <<max_items, ret, appended, fs, chunker, rag, run>>

\* Two stores opened on an empty log, with trimming disabled or a small cap.
InitConc ==
    /\ conc = ConcStart
    /\ max_items \in 0..SmallCap
    /\ file = EmptyFile
    /\ ret = NoCall
    /\ appended = <<>>
    /\ fs = StoreReady
    /\ chunker = NoPage
    /\ rag = NoLibrary
    /\ run = NoRun

NextConc ==
    \E p \in Procs :
        \/ ConcWrite(p)
        \/ ConcRead(p)
        \/ ConcOpen(p)
        \/ \E tail \in Leftover(file.lines) : ConcFlush(p, tail)

SpecConc == InitConc /\ [][NextConc]_vars

(***************************************************************************)
(* Definitions used by the properties.                                     *)
(***************************************************************************)
Items == load_all(file)

QTokens == Range(Tokenize(ret.query))

RetrieveReturned == ret.op = "retrieve" /\ ret.raised = ""

\* No two records of items carry the same exp_id (a missing exp_id counts
\* as the value None).
DistinctIds(items) ==
    \A i, j \in DOMAIN items : i # j => ExpId(items[i]) # ExpId(items[j])

\* The positions of the records with a positive overlap score.
Matching == { i \in DOMAIN Items : Score(QTokens, Items[i]) > 0 }

\* The n newest elements of s, in the order of s.
Newest(s, n) == SubSeq(s, Len(s) - Min(n, Len(s)) + 1, Len(s))

ResultIds == { ExpId(ret.value[i]) : i \in DOMAIN ret.value }

\* The lines of f that hold a JSON object, loaded, in file order.
RECURSIVE ValidRecords(_)
ValidRecords(lines) ==
    IF lines = <<>> THEN <<>>
    ELSE IF Head(lines).k = "json" /\ Head(lines).j.t = "object"
         THEN <<JsonLoads(Head(lines).j)>> \o ValidRecords(Tail(lines))
         ELSE ValidRecords(Tail(lines))

(***************************************************************************)
(* The properties.                                                         *)
(***************************************************************************)
\* C1: retrieve(query, k) returns at most k records for every query and
\* every k >= 0; retrieve(query, 0) returns nothing.
C1_AtMostK == RetrieveReturned => Len(ret.value) <= ret.k

\* C2, as claimed: whatever the records' field values, retrieve(query, k)
\* with k >= 1 returns exactly k records when the log holds at least k.
C2_ExactlyK_AnyRecords ==
    (RetrieveReturned /\ ret.k >= 1 /\ Len(Items) >= ret.k)
        => Len(ret.value) = ret.k

\* C2, amended: when the records of the log carry pairwise distinct exp_id
\* values, retrieve(query, k) with k >= 1 returns exactly k records when the
\* log holds at least k.
C2_ExactlyK_DistinctIds ==
    (RetrieveReturned /\ ret.k >= 1 /\ Len(Items) >= ret.k /\ DistinctIds(Items))
        => Len(ret.value) = ret.k

\* C2 witness: fewer than k records match, the log holds more than k
\* records with distinct ids, and backfill has topped the result up to k.
C2_Witness ==
    /\ RetrieveReturned
    /\ ret.k >= 2
    /\ Len(Items) > ret.k
    /\ DistinctIds(Items)
    /\ QTokens # {}
    /\ Cardinality(Matching) < ret.k
    /\ Len(ret.value) = ret.k

\* C3: with max_items > 0, once more than max_items records have been
\* appended, load_all() returns exactly the max_items most recently
\* appended records, in append order.
C3_TrimKeepsNewest ==
    (max_items > 0 /\ Len(appended) > max_items)
        => /\ Len(Items) = max_items
           /\ Items = Newest(appended, max_items)

\* C3 witness: load_all() called after an append that made the store trim.
C3_Witness ==
    /\ ret.op = "load_all"
    /\ max_items > 0
    /\ Len(appended) > max_items
    /\ ret.value = Newest(appended, max_items)

\* C4: on a store that started empty, the records load_all() returns are a
\* contiguous suffix of the sequence of all records appended, unchanged.
C4_SuffixOfAppended ==
    \E n \in 0..Len(appended) : Items = SubSeq(appended, n + 1, Len(appended))

\* C4 witness: format_context has been called on a retrieve result after a
\* trim dropped some but not all of the appended records.
C4_Witness ==
    /\ ret.op = "format_context"
    /\ Len(Items) > 0
    /\ Len(Items) < Len(appended)

\* C5: when fewer than k records match, backfill stops only when the result
\* has k records or the whole log has been scanned, so that every exp_id of
\* the log is then in the result.
C5_BackfillScansWholeLog ==
    (RetrieveReturned /\ QTokens # {} /\ Cardinality(Matching) < ret.k)
        => \/ Len(ret.value) = ret.k
           \/ \A i \in DOMAIN Items : ExpId(Items[i]) \in ResultIds

\* C6: for a query with tokens, the scored part of the result (its first
\* min(k, number of matching records) entries) holds only records of
\* positive score, by score descending, equal scores in insertion order;
\* and retrieve("relax UiO-66 structure", 2) on [r1, r2, r3] is [r1, r3].
C6_ScoredPartOrdered ==
    (RetrieveReturned /\ QTokens # {})
        => LET t        == Min(ret.k, Cardinality(Matching))
               score(i) == Score(QTokens, Items[ret.idx[i]])
           IN  /\ Len(ret.idx) >= t
               /\ \A i \in 1..t : score(i) > 0
               /\ \A i, j \in 1..t :
                     i < j => \/ score(i) > score(j)
                              \/ /\ score(i) = score(j)
                                 /\ ret.idx[i] < ret.idx[j]
               /\ (Items = <<Rec1, Rec2, Rec3>> /\ ret.query = QueryScenario
                   /\ ret.k = 2)
                     => ret.value = <<Rec1, Rec3>>

\* C6 witness: the scenario of the claim has been retrieved.
C6_Witness ==
    /\ RetrieveReturned
    /\ Items = <<Rec1, Rec2, Rec3>>
    /\ ret.query = QueryScenario
    /\ ret.k = 2
    /\ ret.value = <<Rec1, Rec3>>

\* C7: for a query without tokens and any k, retrieve returns the k most
\* recently appended records (all of them when there are fewer), in
\* insertion order.
C7_NoTokensGivesNewestK ==
    (RetrieveReturned /\ QTokens = {}) => ret.value = Newest(Items, ret.k)

\* The case of C8: retrieve with k = N after N appends, none trimmed, and a
\* query that shares no token with any stored record.
C8_Pre ==
    /\ RetrieveReturned
    /\ ret.k = Len(appended)
    /\ (max_items <= 0 \/ Len(appended) <= max_items)
    /\ Matching = {}

\* What C8 says of the result: it holds each of the N stored records once,
\* and no two of its records carry the same exp_id.
C8_Concl ==
    /\ Len(ret.value) = Len(appended)
    /\ Range(ret.idx) = DOMAIN appended
    /\ \A i \in DOMAIN ret.value : ret.value[i] = appended[ret.idx[i]]
    /\ DistinctIds(ret.value)

\* C8, as claimed: after appending N records, none trimmed, retrieve with
\* k = N and a query sharing no token with any record returns the N stored
\* records, no two with the same exp_id.
C8_AllStored_AnyRecords == C8_Pre => C8_Concl

\* C8, amended: the same for N appended records with pairwise distinct
\* exp_id values.
C8_AllStored_DistinctIds == (C8_Pre /\ DistinctIds(appended)) => C8_Concl

\* C8 witness: two records with distinct ids, a query with tokens that
\* matches neither, and both records returned by backfill, newest first.
C8_Witness ==
    /\ C8_Pre
    /\ QTokens # {}
    /\ Len(appended) = 2
    /\ DistinctIds(appended)
    /\ ret.value = <<appended[2], appended[1]>>

\* C9: in every store state, append(record) followed by load_all() yields
\* the record as the last element, with identical field values.
C9_AppendThenLoad ==
    (ret.op = "append" /\ ret.raised = "")
        => /\ Items # <<>>
           /\ Items[Len(Items)] = appended[Len(appended)]

\* C10: load_all() skips every line that is not a valid record (truncated
\* JSON, garbage, JSON that is not an object) and returns the others in
\* file order, and retrieve() on such a log completes without error.
C10_InvalidLinesSkipped ==
    /\ ret.op = "load_all"
          => ret.raised = "" /\ ret.value = ValidRecords(file.lines)
    /\ ret.op = "retrieve" => ret.raised = ""

LinesOf(records) == [i \in DOMAIN records |-> JsonLine(JsonDumps(records[i]))]

\* C13: with max_items <= 0, after any number of appends on a store that
\* started empty, load_all() returns every appended record in append order,
\* and the file holds exactly the lines the appends wrote.
C13_NoTrimKeepsAll ==
    max_items <= 0 => (Items = appended /\ file.lines = LinesOf(appended))

\* C13 witness: load_all() has returned all the records of a store with a
\* negative max_items after as many appends as the model allows.
C13_Witness ==
    /\ max_items < 0
    /\ Len(appended) = MaxAppends
    /\ ret.op = "load_all"
    /\ ret.value = appended

\* C15: append(record) with a record json.dumps cannot encode raises, and
\* the file is the same after the call as before it.
C15_FailedAppendLeavesLog ==
    [][(ret'.op = "append" /\ ~Serializable(ret'.record))
         => (ret'.raised = "TypeError" /\ file' = file)]_vars

\* C15 witness: an append has raised on a log that holds records.
C15_Witness ==
    /\ ret.op = "append"
    /\ ret.raised = "TypeError"
    /\ ~Serializable(ret.record)
    /\ Len(Items) >= 1
\* C14: when MemoryStore(path) returns, the directory and the file exist,
\* and a file that existed before is left as it was, however often the
\* store is constructed; when the directory cannot be created the
\* constructor raises and no file is written.
C14_InitIdempotent ==
    [][ret'.op = "__init__"
         => IF fs.dir = "blocked"
            THEN /\ ret'.raised = "OSError"
                 /\ fs' = fs
                 /\ file' = file
            ELSE /\ ret'.raised = ""
                 /\ fs'.dir = "present"
                 /\ fs'.file
                 /\ fs.file => (file' = file /\ load_all(file') = load_all(file))]_vars

\* C14 witness: the store has been constructed again over a log that holds
\* records appended through an earlier construction.
C14_Witness ==
    /\ ret.op = "__init__"
    /\ ret.raised = ""
    /\ appended # <<>>
    /\ Len(Items) >= 2
\* The start of the i-th window.
WindowStart(i) == (i - 1) * (CHUNK_SIZE - CHUNK_OVERLAP)

\* What C19 says of the windows and chunks of a page whose loop has ended.
C19_Windows ==
    (chunker.pc = "done" /\ chunker.n > 0)
        => LET w == chunker.windows
               n == chunker.n
           IN  /\ w # <<>>
               /\ \A i \in DOMAIN w :
                     w[i] = <<WindowStart(i), Min(WindowStart(i) + CHUNK_SIZE, n)>>
               /\ \A p \in 0..(n - 1) :
                     \E i \in DOMAIN w : w[i][1] <= p /\ p < w[i][2]
               /\ \A i \in 1..(Len(w) - 1) : w[i][2] - w[i + 1][1] = CHUNK_OVERLAP
               /\ w[Len(w)][2] = n
               /\ chunker.chunks # <<>>
               /\ chunker.chunks[Len(chunker.chunks)]
                     = Strip(SubSeq(chunker.text, w[Len(w)][1] + 1, n))

\* Every chunk emitted so far is non-empty and at most CHUNK_SIZE long.
C19_Chunks ==
    chunker.pc \in {"loop", "done"}
        => \A i \in DOMAIN chunker.chunks :
              /\ chunker.chunks[i] # <<>>
              /\ Len(chunker.chunks[i]) <= CHUNK_SIZE

\* C19: for every page text that is not blank the chunking loop ends, its
\* windows are [s, min(s + 1500, n)) for s = 0, 1300, 2600, ..., they cover
\* every position, consecutive ones share 200 characters, the last one ends
\* at n and its chunk is kept, and every chunk is non-empty and at most
\* 1500 characters long.
C19_ChunkingLoop ==
    /\ [](C19_Windows /\ C19_Chunks)
    /\ <>(chunker.pc = "done")

\* C19 witness: a page of more than three windows has been chunked, its
\* last window shorter than the others and one window dropped as blank.
C19_Witness ==
    /\ chunker.pc = "done"
    /\ Len(chunker.windows) >= 4
    /\ Len(chunker.chunks) = Len(chunker.windows) - 1
    /\ LET last == chunker.windows[Len(chunker.windows)]
       IN  last[2] - last[1] < CHUNK_SIZE
ScoreCalled == rag.pc = "lib" /\ rag.call.op = "_score_chunk"

\* C16: _score_chunk(query, chunk) is the number of distinct query tokens
\* that occur among the chunk's tokens over the number of distinct query
\* tokens; it lies in [0, 1], is 0 when the query or the chunk has no
\* token, and is 0.75 when the chunk holds 3 of 4 distinct query tokens.
C16_ScoreIsFraction ==
    ScoreCalled
        => LET q == Range(Words(rag.call.query))
               c == Range(Words(rag.call.text))
               v == rag.call.out
           IN  /\ v.den >= 1 /\ 0 <= v.num /\ v.num <= v.den
               /\ (q = {} \/ c = {}) => v.num = 0
               /\ (q # {} /\ c # {})
                     => FracEq(v, Frac(Cardinality(q \cap c), Cardinality(q)))
               /\ (Cardinality(q) = 4 /\ Cardinality(q \cap c) = 3)
                     => 4 * v.num = 3 * v.den

\* C16 witness: a chunk with three of the four tokens of the query has been
\* scored 3/4.
C16_Witness ==
    /\ ScoreCalled
    /\ rag.call.query = QueryScenario
    /\ rag.call.text = RagText.three_of_four
    /\ rag.call.out = Frac(3, 4)

SearchCalled == rag.pc = "lib" /\ rag.call.op = "local_rag_search"

\* The chunks a search gathers, in discovery order.
Gathered == IF rag.fitz THEN AllChunks(rag.docs) ELSE <<>>

GatheredScore(i) == score_chunk(rag.call.query, Gathered[i].text)

PositiveChunks == { i \in DOMAIN Gathered : FracLess(Zero, GatheredScore(i)) }

\* C17: local_rag_search returns only chunks of positive score, by score
\* descending and in discovery order among equal scores, min(5, number of
\* positive chunks) of them, none left out that scores higher than one
\* returned, and the references list them in the same order with page
\* numbers counted from 1.
C17_TopChunks ==
    (SearchCalled /\ rag.call.out.raised = "")
        => LET idx  == rag.call.out.idx
               refs == rag.call.out.refs
           IN  /\ \A i \in DOMAIN idx : idx[i] \in PositiveChunks
               /\ \A i, j \in DOMAIN idx :
                     i < j => \/ FracLess(GatheredScore(idx[j]), GatheredScore(idx[i]))
                              \/ /\ FracEq(GatheredScore(idx[j]), GatheredScore(idx[i]))
                                 /\ idx[i] < idx[j]
               /\ Len(idx) = Min(MAX_TOP_CHUNKS, Cardinality(PositiveChunks))
               /\ \A j \in PositiveChunks \ Range(idx) : \A i \in DOMAIN idx :
                     ~FracLess(GatheredScore(idx[i]), GatheredScore(j))
               /\ Len(refs) = Len(idx)
               /\ \A i \in DOMAIN idx :
                     /\ refs[i].source = Gathered[idx[i]].source
                     /\ refs[i].page = Gathered[idx[i]].page + 1
                     /\ refs[i].page >= 1
                     /\ refs[i].score = GatheredScore(idx[i])

\* C17 witness: more than five chunks score positively, five are returned,
\* and two of them have the same score.
C17_Witness ==
    /\ SearchCalled
    /\ Cardinality(PositiveChunks) > MAX_TOP_CHUNKS
    /\ Len(rag.call.out.refs) = MAX_TOP_CHUNKS
    /\ \E i \in 1..(MAX_TOP_CHUNKS - 1) :
          rag.call.out.refs[i].score = rag.call.out.refs[i + 1].score

\* A document the search can read: matched by glob, opened, every page read.
Readable(doc) == IsPdf(doc.name) /\ ~ExtractRaises(doc)

\* C18: local_rag_search raises nothing; it returns ("", []) when the
\* directory does not exist or cannot be created, holds no document the
\* search can read, text extraction is unavailable, or no chunk scores
\* positively; and a document that cannot be read changes nothing for the
\* chunks of the others.
C18_SearchNeverRaises ==
    SearchCalled
        => LET out == rag.call.out
           IN  /\ out.raised = ""
               /\ ( \/ rag.call.dir # "present"
                    \/ ~rag.fitz
                    \/ SelectSeq(rag.docs, Readable) = <<>>
                    \/ PositiveChunks = {} )
                     => (out.ctx = <<>> /\ out.refs = <<>>)
               /\ rag.fitz
                     => out = SearchDocs(SelectSeq(rag.docs, Readable), rag.call.query)
\* C11, as claimed: no two records of the log main() writes have the same
\* exp_id.
C11_ExpIdsUnique == DistinctIds(load_all(file))
\* The nodes of the graph.
GraphNodes == {"intent", "canonicalize", "retrieve", "novelty", "spec"}

\* The positions of event e in what the run has done so far.
EventAt(e) == { i \in DOMAIN run.events : run.events[i] = e }

\* C20: in every run of main() the store is read before any node of the
\* graph runs and written only after the last one, so the records the run
\* retrieved never include its own; a run that ends in rejection or with a
\* written spec has appended exactly one record to the log, and a run that
\* ends in any other way has appended none.
C20_ReadBeforeWriteAfter ==
    /\ (\E i \in DOMAIN run.events : run.events[i] \in GraphNodes)
          => run.events[1] = "mem.retrieve"
    /\ EventAt("mem.retrieve") \subseteq {1}
    /\ EventAt("mem.append") \subseteq {Len(run.events)}
    /\ run.pc # "shell" => (Len(appended) = run.base /\ EventAt("mem.append") = {})
    /\ \A i \in DOMAIN run.retrieved :
          Get(run.retrieved[i], "timestamp", None) # Str(Timestamp(run.n))
    /\ load_all(file) = appended
    /\ (run.pc = "shell" /\ run.n >= 1)
          => LET recorded == Rejected(run) \/ run.written
             IN  /\ recorded => run.exit = "0"
                 /\ Len(appended) - run.base = (IF recorded THEN 1 ELSE 0)
                 /\ Cardinality(EventAt("mem.append")) = (IF recorded THEN 1 ELSE 0)
                 /\ recorded => appended[Len(appended)] \notin Range(run.retrieved)

\* C20 witness: a second run has read the record of the first, been
\* rejected, and left the log with two records.
C20_Witness ==
    /\ run.pc = "shell"
    /\ run.n = 2
    /\ Rejected(run)
    /\ run.exit = "0"
    /\ Len(run.retrieved) = 1
    /\ Len(load_all(file)) = 2
    /\ run.events[Len(run.events)] = "mem.append"

\* What holds of a run the novelty node rejected, and of a run in which the
\* spec node ran.
C21_Gate ==
    /\ Rejected(run)
          => /\ EventAt("novelty") # {}
             /\ EventAt("spec") = {}
             /\ EventAt("write_json") = {}
             /\ ~run.written
             /\ run.spec = None
             /\ run.pc \in {"after", "shell"}
             /\ run.pc = "shell"
                   => /\ run.exit = "0"
                      /\ Len(appended) = run.base + 1
                      /\ LET rec == appended[Len(appended)]
                             log == load_all(file)
                         IN  /\ Get(rec, "verdict_status", None) = Str(TxtReject)
                             /\ Get(rec, "exp_id", None) = Str(run.exp_id)
                             /\ log # <<>>
                             /\ log[Len(log)] = rec
    /\ EventAt("spec") # {}
          => /\ run.novelty # None
             /\ run.novelty.status \in {RunText.pass, RunText.uncertain}

\* C21: when the novelty node returns a verdict with status "reject" the
\* spec node does not run and no spec file is written, main() then appends
\* a record with verdict_status "reject" to the log and exits with code 0
\* (the only step main() takes after such a graph run); the spec node runs
\* only in runs whose verdict is "pass" or "uncertain".
C21_NoveltyGating ==
    /\ []C21_Gate
    /\ [][(Rejected(run) /\ run.pc = "after")
             => /\ run' = Ended(Moved(run, "after", "mem.append"), "0")
                /\ appended' = Append(appended, RejectRecord(run))]_vars

\* C21 witness: a run the novelty node rejected has ended with code 0; its
\* record is the last of the log.
C21_Witness ==
    /\ run.pc = "shell"
    /\ Rejected(run)
    /\ run.exit = "0"
    /\ run.events = <<"mem.retrieve", "intent", "canonicalize", "retrieve",
                      "novelty", "mem.append">>
    /\ Get(load_all(file)[Len(load_all(file))], "verdict_status", None)
          = Str(TxtReject)

\* The nodes the graph has run so far, in order.
GraphEvents == SelectSeq(run.events, LAMBDA e : e \in GraphNodes)

\* s is the start of t
IsPrefix(s, t) == Len(s) <= Len(t) /\ SubSeq(t, 1, Len(s)) = s

\* The order of the nodes, the verdict of fast mode, and a graph that ran to
\* its end.
C22_Order ==
    /\ IsPrefix(GraphEvents,
                IF run.fast_mode
                THEN <<"intent", "canonicalize", "retrieve", "spec">>
                ELSE <<"intent", "canonicalize", "retrieve", "novelty", "spec">>)
    /\ run.fast_mode => EventAt("novelty") = {}
    /\ (run.fast_mode /\ (run.pc = "spec" \/ EventAt("spec") # {}))
          => run.novelty = NoveltyVerdict(RunText.pass, RunText.fast_rationale)
    /\ (~run.fast_mode /\ EventAt("spec") # {})
          => \E i \in EventAt("retrieve"), j \in EventAt("novelty"),
                k \in EventAt("spec") : j = i + 1 /\ k = j + 1
    /\ run.pc \in {"after", "written"}
          => /\ Len(GraphEvents) >= 4
             /\ SubSeq(GraphEvents, 1, 3) = <<"intent", "canonicalize", "retrieve">>

\* C22: the graph runs intent, canonicalize and retrieve in that order; in
\* fast mode the novelty node never runs, retrieve injects a verdict with
\* status "pass" and spec follows retrieve at once; otherwise the novelty
\* node runs between retrieve and spec; and a retrieve in which the arXiv
\* fetch fails (and the local search returns) goes on to the next node with
\* empty literature.
C22_GraphOrder ==
    /\ []C22_Order
    /\ [][StepRetrieve(FALSE, TRUE)
             => /\ run'.exit = ""
                /\ run'.pc = (IF run.fast_mode THEN "spec" ELSE "novelty")
                /\ run'.literature_text = <<>>]_vars

\* C22 witness: a run in fast mode whose arXiv fetch failed has gone from
\* retrieve to spec with the injected verdict, written its spec and
\* appended its record.
C22_Witness ==
    /\ run.pc = "shell"
    /\ run.fast_mode
    /\ run.exit = "0"
    /\ run.literature_text = <<>>
    /\ run.novelty = NoveltyVerdict(RunText.pass, RunText.fast_rationale)
    /\ run.events = <<"mem.retrieve", "intent", "canonicalize", "retrieve",
                      "spec", "write_json", "mem.append">>

\* s is the end of t
IsSuffix(s, t) == Len(s) <= Len(t) /\ SubSeq(t, Len(t) - Len(s) + 1, Len(t)) = s

\* No process has truncated the file without having written it back.
Quiet == \A p \in Procs : conc.proc[p].pc # "flush"

\* The records whose append returned, that are among the max_items last
\* appended, and that the log does not hold.
Lost ==
    { rec \in conc.returned :
        /\ rec \in Range(LastSlice(appended, max_items))
        /\ rec \notin Range(load_all(file)) }

\* C23: with two processes interleaving append() on one log file, a record
\* whose append returned and that is among the max_items last appended can
\* be absent from the log (the witness); this happens only with trimming
\* enabled and only when a process changed the file between the read and
\* the end of the rewrite of another process's trim pass: without that, and
\* outside a rewrite, the log is the end of what was appended and no record
\* is lost.
C23_LossNeedsRace ==
    /\ max_items <= 0 => (~conc.raced /\ load_all(file) = appended)
    /\ (Quiet /\ ~conc.raced)
          => /\ IsSuffix(load_all(file), appended)
             /\ Lost = {}

\* C23 witness: both processes are back from append, trimming is enabled,
\* every line of the log is a record, and a record whose append returned
\* and that is among the max_items last appended is not in the log.
C23_Witness ==
    /\ \A p \in Procs : conc.proc[p].pc = "idle"
    /\ max_items > 0
    /\ \A i \in DOMAIN file.lines : file.lines[i].k = "json"
    /\ Lost # {}

====
